---- MODULE Spec2Model ----
(***************************************************************************)
(* trtm_process/gen_obj.py: load a vertex file and an edge file, derive    *)
(* triangular faces from pairs of edges that share one vertex, and write   *)
(* the mesh as 'v' and 'f' records.                                        *)
(*                                                                         *)
(* Text tokens are strings.  A float is held as its number of halves       *)
(* (0.5 is 1, 1.0 is 2), so parsing and formatting are tables and not the  *)
(* identity.  Python lists are sequences; Python's 0-based index k is      *)
(* position k + 1 of the sequence.                                         *)
(***************************************************************************)
EXTENDS Integers, Sequences, FiniteSets, TLC

VARIABLES
    vfile,      \* lines of trouser_sofa.pred_mesh.txt, each a sequence of tokens
    efile,      \* lines of trouser_sofa.pred_edge.txt, each a sequence of tokens
    pc,         \* position of the script
    err,        \* the exception that ended the run, or "none"
    vertices,   \* gen_obj.py:23
    edges,      \* gen_obj.py:28
    faces,      \* gen_obj.py:10, gen_obj.py:34
    i,          \* gen_obj.py:11
    j,          \* gen_obj.py:12
    n,          \* number of items the current loop of write_obj has consumed
    obj,        \* trouser_sofa.obj on disk: [exists, lines]
    run,        \* number of the current run of the script
    first       \* faces and written lines of the first run, once a later run started

vars == <<vfile, efile, pc, err, vertices, edges, faces, i, j, n, obj, run, first>>

-----------------------------------------------------------------------------
(* Bounds of the model *)

MaxVerts == 2
MaxELines == 2
MaxEdges == 3
MaxIdx == 3
MaxFaces == 2
MaxRuns == 2

SeqsUpTo(S, k) == UNION {[1..m -> S] : m \in 0..k}

-----------------------------------------------------------------------------
(* Conversions between text and numbers *)

\* float(token): the value in halves
FloatTable ==
    [t \in {"0", "0.0", "0.5", "1", "1.0", "1.5"} |->
        CASE t \in {"0", "0.0"} -> 0
          [] t = "0.5" -> 1
          [] t \in {"1", "1.0"} -> 2
          [] t = "1.5" -> 3]

IsFloat(t) == t \in DOMAIN FloatTable

ParseFloat(t) == FloatTable[t]

\* '{}'.format(x) of a float x given in halves
FormatFloat(h) ==
    CASE h = 0 -> "0.0"
      [] h = 1 -> "0.5"
      [] h = 2 -> "1.0"
      [] h = 3 -> "1.5"

Digits == <<"0", "1", "2", "3", "4", "5", "6", "7", "8", "9">>

\* int(token) raises ValueError on anything but an integer literal
IsInt(t) == \E d \in 1..Len(Digits) : Digits[d] = t

ParseInt(t) == (CHOOSE d \in 1..Len(Digits) : Digits[d] = t) - 1

\* '{}'.format(k) of an int k
FormatInt(k) == Digits[k + 1]

-----------------------------------------------------------------------------
(* Helpers of find_faces *)

\* set(e)
SetOf(e) == {e[k] : k \in DOMAIN e}

\* set(edges[i]) & set(edges[j])
shared_vertices(e1, e2) == SetOf(e1) \cap SetOf(e2)

QualifiesAtLeastOne(e1, e2) == Cardinality(shared_vertices(e1, e2)) >= 1

\* len(shared_vertices) == 1
Qualifies(e1, e2) == Cardinality(shared_vertices(e1, e2)) = 1

\* list.remove(x): drops the first occurrence of x
list_remove(s, x) ==
    LET k == CHOOSE m \in 1..Len(s) : s[m] = x /\ \A q \in 1..(m - 1) : s[q] # x
    IN  SubSeq(s, 1, k - 1) \o SubSeq(s, k + 1, Len(s))

MakeFaceKeepAll(e1, e2, p) == e1 \o e2

MakeFacePivotFirst(e1, e2, p) ==
    <<p>> \o SelectSeq(e1, LAMBDA x : x # p) \o SelectSeq(e2, LAMBDA x : x # p)

\* face = list(edges[i] + edges[j]); face.remove(shared_vertices.pop())
MakeFace(e1, e2, p) == list_remove(e1 \o e2, p)

AddFaceInFront(fs, face) == <<face>> \o fs

\* faces.append(face)
AddFace(fs, face) == Append(fs, face)

InnerStartAtZero(a) == 0

\* range(i+1, len(edges)) starts at i + 1
InnerStart(a) == a + 1

-----------------------------------------------------------------------------
(* Helpers of write_obj *)

\* 'v {} {} {}\n'.format(v[0], v[1], v[2])
VertexLine(v) == <<"v", FormatFloat(v[1]), FormatFloat(v[2]), FormatFloat(v[3])>>

FaceLineZeroBased(face) ==
    <<"f", FormatInt(face[1]), FormatInt(face[2]), FormatInt(face[3])>>

\* 'f {} {} {}\n'.format(face[0]+1, face[1]+1, face[2]+1)
FaceLine(face) ==
    <<"f", FormatInt(face[1] + 1), FormatInt(face[2] + 1), FormatInt(face[3] + 1)>>

-----------------------------------------------------------------------------
(* The script: load *)

\* for line in f: vertices.append(list(map(float, line.strip().split())))
ReadVertex ==
    /\ pc = "load_vertices"
    /\ Len(vertices) < Len(vfile)
    /\ LET line == vfile[Len(vertices) + 1] IN
         IF \A k \in DOMAIN line : IsFloat(line[k])
         THEN /\ vertices' = Append(vertices, [k \in DOMAIN line |-> ParseFloat(line[k])])
              /\ UNCHANGED <<pc, err>>
         ELSE /\ pc' = "failed"
              /\ err' = "ValueError"
              /\ UNCHANGED vertices
    /\ UNCHANGED <<vfile, efile, edges, faces, i, j, n, obj, run, first>>

VertexEOFOpensOutput ==
    /\ pc = "load_vertices"
    /\ Len(vertices) = Len(vfile)
    /\ pc' = "load_edges"
    /\ edges' = <<>>
    /\ obj' = [exists |-> TRUE, lines |-> <<>>]
    /\ UNCHANGED <<vfile, efile, err, vertices, faces, i, j, n, run, first>>

\* the vertex file is exhausted; edges = []
VertexEOF ==
    /\ pc = "load_vertices"
    /\ Len(vertices) = Len(vfile)
    /\ pc' = "load_edges"
    /\ edges' = <<>>
    /\ UNCHANGED <<vfile, efile, err, vertices, faces, i, j, n, obj, run, first>>

\* for line in f: edges.append(list(map(int, line.strip().split())))
ReadEdge ==
    /\ pc = "load_edges"
    /\ Len(edges) < Len(efile)
    /\ LET line == efile[Len(edges) + 1] IN
         IF \A k \in DOMAIN line : IsInt(line[k])
         THEN /\ edges' = Append(edges, [k \in DOMAIN line |-> ParseInt(line[k])])
              /\ UNCHANGED <<pc, err>>
         ELSE /\ pc' = "failed"
              /\ err' = "ValueError"
              /\ UNCHANGED edges
    /\ UNCHANGED <<vfile, efile, vertices, faces, i, j, n, obj, run, first>>

\* the edge file is exhausted
EdgeEOF ==
    /\ pc = "load_edges"
    /\ Len(edges) = Len(efile)
    /\ pc' = "reconstruct"
    /\ UNCHANGED <<vfile, efile, err, vertices, edges, faces, i, j, n, obj, run, first>>

-----------------------------------------------------------------------------
(* find_faces *)

\* faces = find_faces(edges): faces = [], the outer loop starts at i = 0
CallFindFaces ==
    /\ pc = "reconstruct"
    /\ pc' = "find_faces"
    /\ faces' = <<>>
    /\ i' = 0
    /\ j' = InnerStart(0)
    /\ UNCHANGED <<vfile, efile, err, vertices, edges, n, obj, run, first>>

\* one iteration of the inner loop, on the pair (edges[i], edges[j])
ScanPair ==
    /\ pc = "find_faces"
    /\ i < Len(edges)
    /\ j < Len(edges)
    /\ LET e1 == edges[i + 1]
           e2 == edges[j + 1]
       IN  IF Qualifies(e1, e2)
           THEN \E p \in shared_vertices(e1, e2) :
                    faces' = AddFace(faces, MakeFace(e1, e2, p))
           ELSE faces' = faces
    /\ j' = j + 1
    /\ UNCHANGED <<vfile, efile, pc, err, vertices, edges, i, n, obj, run, first>>

\* the inner loop is exhausted: next i
NextOuter ==
    /\ pc = "find_faces"
    /\ i < Len(edges)
    /\ j >= Len(edges)
    /\ i' = i + 1
    /\ j' = InnerStart(i + 1)
    /\ UNCHANGED <<vfile, efile, pc, err, vertices, edges, faces, n, obj, run, first>>

ReturnFacesRaisesOnEmpty ==
    /\ pc = "find_faces"
    /\ i >= Len(edges)
    /\ IF faces = <<>>
       THEN pc' = "failed" /\ err' = "NoFacesFound"
       ELSE pc' = "write" /\ UNCHANGED err
    /\ UNCHANGED <<vfile, efile, vertices, edges, faces, i, j, n, obj, run, first>>

\* return faces
ReturnFaces ==
    /\ pc = "find_faces"
    /\ i >= Len(edges)
    /\ pc' = "write"
    /\ UNCHANGED <<vfile, efile, err, vertices, edges, faces, i, j, n, obj, run, first>>

-----------------------------------------------------------------------------
(* write_obj *)

\* with open(filename, 'w') as f: creates or truncates the file
OpenObj ==
    /\ pc = "write"
    /\ obj' = [exists |-> TRUE, lines |-> <<>>]
    /\ pc' = "write_vertices"
    /\ n' = 0
    /\ UNCHANGED <<vfile, efile, err, vertices, edges, faces, i, j, run, first>>

\* for v in vertices: f.write(...); v[2] raises IndexError on a short vertex
WriteVertex ==
    /\ pc = "write_vertices"
    /\ n < Len(vertices)
    /\ LET v == vertices[n + 1] IN
         IF Len(v) >= 3
         THEN /\ obj' = [obj EXCEPT !.lines = Append(@, VertexLine(v))]
              /\ n' = n + 1
              /\ UNCHANGED <<pc, err>>
         ELSE /\ pc' = "failed"
              /\ err' = "IndexError"
              /\ UNCHANGED <<obj, n>>
    /\ UNCHANGED <<vfile, efile, vertices, edges, faces, i, j, run, first>>

\* the vertex loop is exhausted
VerticesWritten ==
    /\ pc = "write_vertices"
    /\ n >= Len(vertices)
    /\ pc' = "write_faces"
    /\ n' = 0
    /\ UNCHANGED <<vfile, efile, err, vertices, edges, faces, i, j, obj, run, first>>

\* for face in faces: f.write(...); face[2] raises IndexError on a short face
WriteFace ==
    /\ pc = "write_faces"
    /\ n < Len(faces)
    /\ LET face == faces[n + 1] IN
         IF Len(face) >= 3
         THEN /\ obj' = [obj EXCEPT !.lines = Append(@, FaceLine(face))]
              /\ n' = n + 1
              /\ UNCHANGED <<pc, err>>
         ELSE /\ pc' = "failed"
              /\ err' = "IndexError"
              /\ UNCHANGED <<obj, n>>
    /\ UNCHANGED <<vfile, efile, vertices, edges, faces, i, j, run, first>>

\* the face loop is exhausted; the with block closes the file
CloseObj ==
    /\ pc = "write_faces"
    /\ n >= Len(faces)
    /\ pc' = "done"
    /\ UNCHANGED <<vfile, efile, err, vertices, edges, faces, i, j, n, obj, run, first>>

\* the script is started again on the same two input files
Rerun ==
    /\ pc = "done"
    /\ run < MaxRuns
    /\ run' = run + 1
    /\ first' = IF run = 1 THEN [faces |-> faces, lines |-> obj.lines] ELSE first
    /\ pc' = "load_vertices"
    /\ vertices' = <<>>
    /\ edges' = <<>>
    /\ faces' = <<>>
    /\ i' = 0
    /\ j' = 0
    /\ n' = 0
    /\ UNCHANGED <<vfile, efile, err, obj>>

-----------------------------------------------------------------------------
(* Inputs *)

\* vertex lines of three floats
VLines == {<<"0", "0.5", "1">>, <<"1.5", "0", "0.5">>}

\* edge lines of two integers
ELines == [1..2 -> {"0", "1", "2"}]

\* vertex lines of the wrong arity or type
VLinesBad == {<<"0", "0.5">>, <<"0", "x", "1">>, <<"0", "0.5", "1", "1.5">>}

\* edge lines of the wrong arity or type
ELinesBad == {<<"0">>, <<"0", "0.5">>, <<"0", "1", "1">>}

ELinesRaw == [1..2 -> {"0", "1"}] \cup ELinesBad

VLinesRaw == VLines \cup VLinesBad

Start ==
    /\ pc = "load_vertices"
    /\ err = "none"
    /\ vertices = <<>>
    /\ edges = <<>>
    /\ faces = <<>>
    /\ i = 0
    /\ j = 0
    /\ n = 0
    /\ obj = [exists |-> FALSE, lines |-> <<>>]
    /\ run = 1
    /\ first = [faces |-> <<>>, lines |-> <<>>]

\* a run on files whose lines have the arity and type of the data model
Init ==
    /\ vfile \in SeqsUpTo(VLines, MaxVerts)
    /\ efile \in SeqsUpTo(ELines, MaxELines)
    /\ Start

\* a run on files that may hold malformed lines
InitRaw ==
    /\ vfile \in SeqsUpTo(VLinesRaw, MaxVerts)
    /\ efile \in SeqsUpTo(ELinesRaw, MaxELines)
    /\ Start

\* find_faces applied to a list of index pairs
InitFaces ==
    /\ vfile = <<>>
    /\ efile = <<>>
    /\ pc = "reconstruct"
    /\ err = "none"
    /\ vertices = <<>>
    /\ edges \in SeqsUpTo([1..2 -> 0..MaxIdx], MaxEdges)
    /\ faces = <<>>
    /\ i = 0
    /\ j = 0
    /\ n = 0
    /\ obj = [exists |-> FALSE, lines |-> <<>>]
    /\ run = 1
    /\ first = [faces |-> <<>>, lines |-> <<>>]

\* write_obj applied to a list of vertices and a list of index triples
InitWrite ==
    /\ vfile = <<>>
    /\ efile = <<>>
    /\ pc = "write"
    /\ err = "none"
    /\ vertices \in SeqsUpTo({[k \in 1..3 |-> ParseFloat(l[k])] : l \in VLines}, MaxVerts)
    /\ edges = <<>>
    /\ faces \in SeqsUpTo([1..3 -> 0..1], MaxFaces)
    /\ i = 0
    /\ j = 0
    /\ n = 0
    /\ obj = [exists |-> FALSE, lines |-> <<>>]
    /\ run = 1
    /\ first = [faces |-> <<>>, lines |-> <<>>]

NextFaces == CallFindFaces \/ ScanPair \/ NextOuter \/ ReturnFaces

NextWrite == OpenObj \/ WriteVertex \/ VerticesWritten \/ WriteFace \/ CloseObj

NextRun ==
    \/ ReadVertex \/ VertexEOF \/ ReadEdge \/ EdgeEOF
    \/ CallFindFaces \/ ScanPair \/ NextOuter \/ ReturnFaces
    \/ OpenObj \/ WriteVertex \/ VerticesWritten \/ WriteFace \/ CloseObj

Next == NextRun \/ Rerun

Spec == Init /\ [][Next]_vars

SpecRaw == InitRaw /\ [][NextRun]_vars

SpecFaces == InitFaces /\ [][NextFaces]_vars

SpecWrite == InitWrite /\ [][NextWrite]_vars

-----------------------------------------------------------------------------
(* Vocabulary of the properties, stated on the data and not on the helpers   *)
(* above: edge positions are 0-based as in the script.                       *)

EndSet(e) == {e[k] : k \in 1..Len(e)}

EdgeAt(a) == edges[a + 1]

AllPairs == {pr \in (0..(Len(edges) - 1)) \X (0..(Len(edges) - 1)) : pr[1] < pr[2]}

SharesOne(pr) == Cardinality(EndSet(EdgeAt(pr[1])) \cap EndSet(EdgeAt(pr[2]))) = 1

QualPairs == {pr \in AllPairs : SharesOne(pr)}

LexLess(p, q) == p[1] < q[1] \/ (p[1] = q[1] /\ p[2] < q[2])

\* the pairs among Q the scan has dealt with in the current state
ScannedOf(Q) ==
    CASE pc = "reconstruct" -> {}
      [] pc = "find_faces" -> {pr \in Q : LexLess(pr, <<i, j>>)}
      [] OTHER -> Q

\* the qualifying pairs the scan has dealt with in the current state
Scanned == ScannedOf(QualPairs)

\* 1-based position of the pair pr of Q among the pairs of Q in lexicographic
\* order
RankIn(Q, pr) == Cardinality({q \in Q : LexLess(q, pr)}) + 1

Pivot(e1, e2) == CHOOSE v \in EndSet(e1) \cap EndSet(e2) : TRUE

Other(e, p) == IF e[1] = p THEN e[2] ELSE e[1]

ProperEdges == \A k \in 1..Len(edges) : Len(edges[k]) = 2 /\ edges[k][1] # edges[k][2]

\* pairwise distinct proper edges that all contain one common vertex
IsStar ==
    /\ ProperEdges
    /\ \A a, b \in 1..Len(edges) : a # b => EndSet(edges[a]) # EndSet(edges[b])
    /\ \E c \in 0..MaxIdx : \A k \in 1..Len(edges) : c \in EndSet(edges[k])

\* three proper edges on three vertices, each two sharing exactly one vertex
IsThreeCycle ==
    /\ Len(edges) = 3
    /\ ProperEdges
    /\ QualPairs = AllPairs
    /\ Cardinality(UNION {EndSet(edges[k]) : k \in 1..3}) = 3

FacesReturned == pc = "write"

\* a step of the scan that emits a face
Emits == pc = "find_faces" /\ Len(faces') = Len(faces) + 1

-----------------------------------------------------------------------------
(* C1: every index of every face emitted by find_faces lies within          *)
(* [0, number of loaded vertices).                                          *)
C1_FaceIndicesInRange ==
    \A k \in 1..Len(faces) : \A m \in 1..Len(faces[k]) :
        faces[k][m] \in 0..(Len(vertices) - 1)

(* C2: find_faces emits exactly one face for each pair (i, j), i < j, whose  *)
(* edges share exactly one vertex and none for any other pair: when the scan *)
(* stands at (i, j) the number of faces is the number of qualifying pairs    *)
(* before (i, j), at the return it is the number of qualifying pairs, and    *)
(* for a star of k distinct edges that is k(k-1)/2.                          *)
C2_OneFacePerQualifyingPair ==
    /\ Len(faces) = Cardinality(Scanned)
    /\ FacesReturned /\ IsStar => 2 * Len(faces) = Len(edges) * (Len(edges) - 1)

C2_Witness ==
    /\ FacesReturned
    /\ IsStar
    /\ Len(edges) = 3
    /\ Len(faces) = 3

C5_FacesInLexicographicPairOrder ==
    /\ pc = "find_faces" => i < j
    /\ FacesReturned =>
        LET Q == QualPairs
        IN  /\ Len(faces) = Cardinality(Q)
            /\ \A pr \in Q :
                 LET e1 == EdgeAt(pr[1])
                     e2 == EdgeAt(pr[2])
                 IN  faces[RankIn(Q, pr)] = <<Other(e1, Pivot(e1, e2)), e2[1], e2[2]>>

C5_Witness ==
    /\ FacesReturned
    /\ QualPairs = {<<0, 1>>, <<0, 2>>, <<1, 2>>}
    /\ Len(faces) = 3
    /\ faces[1] # faces[2]
    /\ faces[2] # faces[3]

(* C10: when every edge is a pair of two distinct indices, every face has    *)
(* exactly three pairwise distinct entries, which are the endpoints of the   *)
(* two edges that produced it; three edges forming a 3-cycle give three      *)
(* faces on the same three vertices.                                         *)
C10_ThreeDistinctEntries ==
    ProperEdges =>
        /\ \A k \in 1..Len(faces) :
            Len(faces[k]) = 3 /\ Cardinality(EndSet(faces[k])) = 3
        /\ FacesReturned =>
            LET Q == QualPairs
            IN  \A pr \in Q :
                 LET r == RankIn(Q, pr)
                 IN  /\ r <= Len(faces)
                     /\ EndSet(faces[r]) = EndSet(EdgeAt(pr[1])) \cup EndSet(EdgeAt(pr[2]))
        /\ FacesReturned /\ IsThreeCycle =>
            /\ Len(faces) = 3
            /\ EndSet(faces[1]) = EndSet(faces[2])
            /\ EndSet(faces[2]) = EndSet(faces[3])

C10_Witness ==
    /\ FacesReturned
    /\ edges = <<<<0, 1>>, <<1, 2>>, <<2, 0>>>>
    /\ Len(faces) = 3

-----------------------------------------------------------------------------
(* Vocabulary of the properties about the whole run *)

WellFormedVertexLine(l) == Len(l) = 3 /\ \A k \in 1..Len(l) : IsFloat(l[k])

WellFormedEdgeLine(l) == Len(l) = 2 /\ \A k \in 1..Len(l) : IsInt(l[k])

MalformedInput ==
    \/ \E k \in 1..Len(vfile) : ~WellFormedVertexLine(vfile[k])
    \/ \E k \in 1..Len(efile) : ~WellFormedEdgeLine(efile[k])

Loading == pc \in {"load_vertices", "load_edges"}

Reconstructing == pc \in {"reconstruct", "find_faces"}

Writing == pc \in {"write_vertices", "write_faces"}

\* the fields of a written record read back as numbers, 1-based indices
\* turned into 0-based ones
VertexOfLine(l) == [m \in 1..(Len(l) - 1) |-> ParseFloat(l[m + 1])]

FaceOfLine(l) == [m \in 1..(Len(l) - 1) |-> ParseInt(l[m + 1]) - 1]

(* C4: if any input line does not parse into its arity or type, the run      *)
(* aborts and the destination file is neither created, truncated nor         *)
(* written.                                                                  *)
C4_MalformedInputLeavesNoOutput ==
    MalformedInput => ~obj.exists /\ obj.lines = <<>> /\ ~Writing /\ pc # "done"

(* C6: write_obj writes one 'v' record per vertex, all before any 'f'        *)
(* record, then one 'f' record per face, in input order, face indices plus   *)
(* one; read back, the records give the vertex and the face sequence.        *)
C6_RecordsRoundTrip ==
    /\ \A a, b \in 1..Len(obj.lines) :
        a < b /\ obj.lines[a][1] = "f" => obj.lines[b][1] = "f"
    /\ pc = "done" =>
        /\ Len(obj.lines) = Len(vertices) + Len(faces)
        /\ \A k \in 1..Len(vertices) :
            obj.lines[k][1] = "v" /\ VertexOfLine(obj.lines[k]) = vertices[k]
        /\ \A k \in 1..Len(faces) :
            LET l == obj.lines[Len(vertices) + k]
            IN  l[1] = "f" /\ FaceOfLine(l) = faces[k]

C6_Witness ==
    /\ pc = "done"
    /\ Len(vertices) = 2
    /\ vertices[1] # vertices[2]
    /\ Len(faces) = 2
    /\ faces[1] # faces[2]
    /\ Len(obj.lines) = 4

(* C7: the run is staged Load, Reconstruct, Write: both files are read to    *)
(* the end before find_faces starts, the destination is opened only after    *)
(* find_faces returned all faces, and a failure in loading or in             *)
(* reconstruction leaves the destination untouched.                          *)
C7_LoadReconstructWriteStaged ==
    /\ pc # "load_vertices" /\ pc # "failed" => Len(vertices) = Len(vfile)
    /\ Reconstructing \/ Writing \/ pc \in {"write", "done"} =>
        Len(vertices) = Len(vfile) /\ Len(edges) = Len(efile)
    /\ Loading \/ Reconstructing \/ pc = "write" => ~obj.exists /\ obj.lines = <<>>
    /\ obj.exists =>
        /\ Len(vertices) = Len(vfile)
        /\ Len(edges) = Len(efile)
        /\ i >= Len(edges)
        /\ Len(faces) = Cardinality(QualPairs)
        /\ pc = "failed" => err = "IndexError"
    /\ pc = "failed" /\ err # "IndexError" => ~obj.exists /\ obj.lines = <<>>

C7_Witness ==
    /\ pc = "done"
    /\ obj.exists
    /\ Len(vertices) > 0
    /\ Len(faces) > 0
    /\ Len(obj.lines) = Len(vertices) + Len(faces)

(* C8: when no pair of edges shares exactly one vertex, find_faces returns   *)
(* an empty list without an error and the run completes with a file holding  *)
(* every vertex record and no face record.                                   *)
C8_NoQualifyingPairGivesVerticesOnly ==
    ~Loading /\ QualPairs = {} =>
        /\ faces = <<>>
        /\ pc # "failed"
        /\ pc # "done" => ENABLED NextRun
        /\ pc = "done" =>
            /\ Len(obj.lines) = Len(vertices)
            /\ \A k \in 1..Len(vertices) :
                obj.lines[k][1] = "v" /\ VertexOfLine(obj.lines[k]) = vertices[k]

C8_Witness ==
    /\ pc = "done"
    /\ Len(edges) = 2
    /\ QualPairs = {}
    /\ Len(vertices) = 2
    /\ Len(obj.lines) = 2

(* C9: a second run on the same input gives the same faces, in the same      *)
(* order and with the same entries, and the same written records, whatever   *)
(* element the pop of the shared set returns.                                *)
C9_SecondRunSameOutput ==
    /\ run > 1 /\ pc \in {"write", "write_vertices", "write_faces", "done"} =>
        faces = first.faces
    /\ run > 1 /\ pc = "done" => obj.lines = first.lines

C9_Witness ==
    /\ run = 2
    /\ pc = "done"
    /\ Len(faces) >= 1
    /\ Len(obj.lines) >= 2

====
